---- MODULE Spec2Model ----
(***************************************************************************)
(* Model of scripts/align.py: the command-line entry point and the         *)
(* timestamp validation pass of align_audio.                               *)
(*                                                                         *)
(* Timestamps are whole seconds.  The loop index i is 0-based as in the    *)
(* Python source; TLA+ sequences are 1-based, so transcription['words'][i] *)
(* is written words[i + 1].  validated_words holds references to the word  *)
(* objects of transcription['words'] (Python appends the dict itself, not  *)
(* a copy); a reference is the word's 0-based index in that list.          *)
(***************************************************************************)
EXTENDS Integers, Sequences, FiniteSets

VARIABLES
    pc,               \* position of the process
    argc,             \* len(sys.argv)
    transcript_json,  \* the input file on disk
    output_json,      \* the output file on disk
    out_opened,       \* open(output_json, 'w') succeeded in this invocation
    transcription,    \* the object json.load returned (mutated in place)
    i,                \* loop index of the validation pass
    prev_end,         \* local prev_end: << >> while unbound, <<v>> once assigned
    validated_words,  \* references to the accepted words, in append order
    output_data,      \* the result object
    exc,              \* the exception that was raised, "none" if none
    exit_status,      \* "running", "0" or "1"
    run               \* 1: first invocation, 2: re-run on the first run's output

vars == <<pc, argc, transcript_json, output_json, out_opened, transcription, i,
          prev_end, validated_words, output_data, exc, exit_status, run>>

(***************************************************************************)
(* Bounds of the model.                                                    *)
(***************************************************************************)
MaxWords == 3
MaxStart == 2
MaxEnd == 3

Starts == 0..MaxStart
Ends == 0..MaxEnd
Vocabulary == <<"the", "quick", "brown", "fox", "jumps", "over">>
Texts == {"hello"}
Languages == {"fr"}
Argcs == {3, 4}

None == [none |-> TRUE]

\* Transcripts whose words all carry word, start and end.
WordAt(k) == [word : {Vocabulary[k]}, start : Starts, end : Ends]
WordLists == UNION {{w \in [1..n -> UNION {WordAt(k) : k \in 1..n}] :
                        \A k \in 1..n : w[k] \in WordAt(k)} : n \in 0..MaxWords}
Transcripts ==
    [text : Texts, words : WordLists]
        \cup [text : Texts, language : Languages, words : WordLists]

Files == {[status |-> "missing"], [status |-> "malformed"]}
            \cup {[status |-> "ok", doc |-> d] : d \in Transcripts}

(***************************************************************************)
(* Expressions of align_audio.                                             *)
(***************************************************************************)
\* a get that ignores the stored value
Get_AlwaysDefault(d, key, default) == default

\* dict.get(key, default)
Get(d, key, default) == IF key \in DOMAIN d THEN d[key] ELSE default

\* the word a reference points to
Deref(words, ref) == words[ref + 1]

\* the end of the previous input word, transcription['words'][i - 1]['end']
PrevEnd_PreviousInput(words, vw, idx) == words[idx].end

\* prev_end = validated_words[-1]['end'], evaluated in the loop's environment
\* (the word list, validated_words, i)
PrevEnd(words, vw, idx) == Deref(words, vw[Len(vw)]).end

\* gap = word['start'] - prev_end
Gap(word, pe) == word.start - pe

\* an overlap test that tolerates one second
Overlap_Tolerant(gap) == gap < -1

\* gap < 0
Overlap(gap) == gap < 0

\* gap > 0.5
LargeGap(gap) == 2 * gap > 1

\* an adjustment that nudges the start forward instead of assigning prev_end
Adjust_Nudge(word, pe) == [word EXCEPT !.start = word.start + 1]

\* word['start'] = prev_end
Adjust(word, pe) == [word EXCEPT !.start = pe]

\* a large-gap branch that closes the gap
Pause_CloseGap(word, pe) == [word EXCEPT !.start = pe]

\* pass
Pause(word, pe) == word

\* the if/elif on the gap
Repair(word, pe) ==
    IF Overlap(Gap(word, pe)) THEN Adjust(word, pe)
    ELSE IF LargeGap(Gap(word, pe)) THEN Pause(word, pe)
    ELSE word

\* a duration that counts both end points
Duration_Inclusive(word) == word.end - word.start + 1

\* duration = word['end'] - word['start']
Duration(word) == word.end - word.start

\* a test that skips negative durations only
ZeroDuration_Strict(duration) == duration < 0

\* duration <= 0
ZeroDuration(duration) == duration <= 0

\* validated_words.insert(0, word)
Accept_Prepend(vw, idx) == <<idx>> \o vw

\* validated_words.append(word)
Accept(vw, idx) == Append(vw, idx)

\* the list of word objects validated_words refers to
WordsOf(words, vw) == [k \in 1..Len(vw) |-> Deref(words, vw[k])]

\* output_data = {...}
OutputData(t, vw) ==
    [text |-> t.text,
     language |-> Get(t, "language", "en"),
     words |-> WordsOf(t.words, vw),
     alignment_method |-> "whisperx"]

\* a usage test that rejects only too many arguments
BadArgc_TooMany(n) == n > 4

\* len(sys.argv) != 4
BadArgc(n) == n # 4

(***************************************************************************)
(* Initial state: the process has started, nothing has run.                *)
(***************************************************************************)
Init ==
    /\ pc = "main"
    /\ argc \in Argcs
    /\ transcript_json \in Files
    /\ output_json = [status |-> "missing"]
    /\ out_opened = FALSE
    /\ transcription = None
    /\ i = 0
    /\ prev_end = << >>
    /\ validated_words = << >>
    /\ output_data = None
    /\ exc = "none"
    /\ exit_status = "running"
    /\ run = 1

(***************************************************************************)
(* __main__                                                                *)
(***************************************************************************)
\* wrong argument count: print usage, sys.exit(1)
Usage ==
    /\ pc = "main"
    /\ BadArgc(argc)
    /\ pc' = "exit"
    /\ exit_status' = "1"
    /\ UNCHANGED <<argc, transcript_json, output_json, out_opened, transcription,
                   i, prev_end, validated_words, output_data, exc, run>>

\* try: align_audio(audio_file, transcript_json, output_json)
Call ==
    /\ pc = "main"
    /\ ~BadArgc(argc)
    /\ pc' = "load"
    /\ UNCHANGED <<argc, transcript_json, output_json, out_opened, transcription,
                   i, prev_end, validated_words, output_data, exc, exit_status, run>>

\* except Exception as e: print to stderr, sys.exit(1)
Except ==
    /\ pc = "raised"
    /\ pc' = "exit"
    /\ exit_status' = "1"
    /\ UNCHANGED <<argc, transcript_json, output_json, out_opened, transcription,
                   i, prev_end, validated_words, output_data, exc, run>>

\* align_audio returned: the script runs off its end
ExitOk ==
    /\ pc = "returned"
    /\ pc' = "exit"
    /\ exit_status' = "0"
    /\ UNCHANGED <<argc, transcript_json, output_json, out_opened, transcription,
                   i, prev_end, validated_words, output_data, exc, run>>

(***************************************************************************)
(* align_audio                                                             *)
(***************************************************************************)
\* open(transcript_json) raises
LoadMissing ==
    /\ pc = "load"
    /\ transcript_json.status = "missing"
    /\ pc' = "raised"
    /\ exc' = "FileNotFoundError"
    /\ UNCHANGED <<argc, transcript_json, output_json, out_opened, transcription,
                   i, prev_end, validated_words, output_data, exit_status, run>>

\* json.load raises
LoadMalformed ==
    /\ pc = "load"
    /\ transcript_json.status = "malformed"
    /\ pc' = "raised"
    /\ exc' = "JSONDecodeError"
    /\ UNCHANGED <<argc, transcript_json, output_json, out_opened, transcription,
                   i, prev_end, validated_words, output_data, exit_status, run>>

\* transcription = json.load(f); validated_words = []
Load ==
    /\ pc = "load"
    /\ transcript_json.status = "ok"
    /\ transcription' = transcript_json.doc
    /\ validated_words' = << >>
    /\ i' = 0
    /\ pc' = "loop"
    /\ UNCHANGED <<argc, transcript_json, output_json, out_opened, prev_end,
                   output_data, exc, exit_status, run>>

\* one iteration, i > 0 and validated_words is empty: validated_words[-1] raises
IterIndexError ==
    /\ pc = "loop"
    /\ i < Len(transcription.words)
    /\ i > 0
    /\ validated_words = << >>
    /\ pc' = "raised"
    /\ exc' = "IndexError"
    /\ UNCHANGED <<argc, transcript_json, output_json, out_opened, transcription,
                   i, prev_end, validated_words, output_data, exit_status, run>>

\* one iteration that does not raise
Iterate ==
    /\ pc = "loop"
    /\ i < Len(transcription.words)
    /\ i > 0 => validated_words # << >>
    /\ LET words == transcription.words
           pe    == PrevEnd(words, validated_words, i)
           word  == IF i > 0 THEN Repair(words[i + 1], pe) ELSE words[i + 1]
       IN  /\ prev_end' = IF i > 0 THEN <<pe>> ELSE prev_end
           /\ transcription' = [transcription EXCEPT !.words[i + 1] = word]
           /\ validated_words' = IF ZeroDuration(Duration(word))
                                    THEN validated_words
                                    ELSE Accept(validated_words, i)
    /\ i' = i + 1
    /\ UNCHANGED <<pc, argc, transcript_json, output_json, out_opened, output_data,
                   exc, exit_status, run>>

\* the loop is over: output_data = {...}
Assemble ==
    /\ pc = "loop"
    /\ i = Len(transcription.words)
    /\ output_data' = OutputData(transcription, validated_words)
    /\ pc' = "save"
    /\ UNCHANGED <<argc, transcript_json, output_json, out_opened, transcription,
                   i, prev_end, validated_words, exc, exit_status, run>>

\* open(output_json, 'w') raises
SaveOpenFails ==
    /\ pc = "save"
    /\ pc' = "raised"
    /\ exc' = "OSError"
    /\ UNCHANGED <<argc, transcript_json, output_json, out_opened, transcription,
                   i, prev_end, validated_words, output_data, exit_status, run>>

\* the file is opened (and truncated) and json.dump raises
SaveDumpFails ==
    /\ pc = "save"
    /\ out_opened' = TRUE
    /\ output_json' = [status |-> "malformed"]
    /\ pc' = "raised"
    /\ exc' = "OSError"
    /\ UNCHANGED <<argc, transcript_json, transcription, i, prev_end,
                   validated_words, output_data, exit_status, run>>

\* json.dump(output_data, f); return output_data
Save ==
    /\ pc = "save"
    /\ out_opened' = TRUE
    /\ output_json' = [status |-> "ok", doc |-> output_data]
    /\ pc' = "returned"
    /\ UNCHANGED <<argc, transcript_json, transcription, i, prev_end,
                   validated_words, output_data, exc, exit_status, run>>

(***************************************************************************)
(* Environment: the script is run again, with the file the first run wrote *)
(* as its transcript and a fresh output path.                              *)
(***************************************************************************)
Rerun ==
    /\ pc = "exit"
    /\ exit_status = "0"
    /\ run = 1
    /\ run' = 2
    /\ transcript_json' = output_json
    /\ output_json' = [status |-> "missing"]
    /\ out_opened' = FALSE
    /\ transcription' = None
    /\ i' = 0
    /\ prev_end' = << >>
    /\ validated_words' = << >>
    /\ output_data' = None
    /\ exit_status' = "running"
    /\ pc' = "main"
    /\ UNCHANGED <<argc, exc>>

Next ==
    \/ Usage
    \/ Call
    \/ Except
    \/ ExitOk
    \/ LoadMissing
    \/ LoadMalformed
    \/ Load
    \/ IterIndexError
    \/ Iterate
    \/ Assemble
    \/ SaveOpenFails
    \/ SaveDumpFails
    \/ Save
    \/ Rerun

Spec == Init /\ [][Next]_vars

(***************************************************************************)
(* Vocabulary of the properties.                                           *)
(***************************************************************************)
\* the transcript has been read and parsed in this invocation
Loaded == transcription # None

\* align_audio has returned its result
Returned == pc = "returned" \/ (pc = "exit" /\ exit_status = "0")

\* the word list as it stands in the input file
In == transcript_json.doc.words

\* the word list of the result
Out == output_data.words

\* the input word and the processed word behind the k-th accepted reference
InWord(k) == In[validated_words[k] + 1]
OutWord(k) == transcription.words[validated_words[k] + 1]

Refs == {validated_words[k] : k \in 1..Len(validated_words)}
Max(S) == CHOOSE x \in S : \A y \in S : y <= x
Larger(a, b) == IF a >= b THEN a ELSE b

(***************************************************************************)
(* C1: for every transcript that is read and parsed and whose words all    *)
(* carry text, start and end, the validation pass never raises, whatever   *)
(* the timestamps are.                                                     *)
(***************************************************************************)
C1_ValidationNeverRaises == Loaded => exc # "IndexError"

(***************************************************************************)
(* C2: when align_audio returns, consecutive output words a, b satisfy     *)
(* a.end <= b.start.                                                       *)
(***************************************************************************)
C2_NoOverlap ==
    Returned => \A k \in 1..(Len(Out) - 1) : Out[k].end <= Out[k + 1].start

\* a run that returned two words, the second of which overlapped the first
C2_Witness ==
    /\ Returned
    /\ run = 1
    /\ Len(Out) >= 2
    /\ InWord(2).start < InWord(1).end

(***************************************************************************)
(* C3: when align_audio returns, every output word has start < end (and so *)
(* start <= end).                                                          *)
(***************************************************************************)
C3_PositiveDuration ==
    Returned => \A k \in 1..Len(Out) : Out[k].start < Out[k].end

\* a run that returned a word and dropped another
C3_Witness ==
    /\ Returned
    /\ run = 1
    /\ Len(Out) >= 1
    /\ Len(Out) < Len(In)

(***************************************************************************)
(* C4: the validation pass run on its own output returns an identical      *)
(* output; in that second run no start is clamped and no word is dropped.  *)
(***************************************************************************)
C4_Idempotent ==
    run = 2 =>
        /\ exc \in {"none", "OSError"}
        /\ Loaded => /\ Len(validated_words) = i
                     /\ transcription.words = In
        /\ Returned => /\ output_data = transcript_json.doc
                       /\ output_json.doc = transcript_json.doc

\* the second run returned, on an output of at least two words
C4_Witness ==
    /\ run = 2
    /\ Returned
    /\ Len(Out) >= 2

(***************************************************************************)
(* C5: a word whose input timestamps satisfy end <= start is never in the  *)
(* output, whatever its position.                                          *)
(***************************************************************************)
C5_DegenerateDropped ==
    Returned =>
        /\ Len(Out) = Len(validated_words)
        /\ \A k \in 1..Len(validated_words) : InWord(k).end > InWord(k).start

\* a run that returned words from an input holding a degenerate word
C5_Witness ==
    /\ Returned
    /\ run = 1
    /\ Len(Out) >= 2
    /\ \E j \in 1..Len(In) : In[j].end <= In[j].start

(***************************************************************************)
(* C6: a discarded word does not advance the previous accepted end time:   *)
(* the prev_end an iteration uses is the end of the last word accepted     *)
(* before it, whatever was dropped in between.                             *)
(***************************************************************************)
C6_PrevEndIsLastAccepted ==
    (Loaded /\ prev_end # << >>) =>
        LET before == {r \in Refs : r < i - 1}
        IN  /\ before # {}
            /\ prev_end[1] = In[Max(before) + 1].end

\* the iteration after a dropped word used an end other than the dropped word's
C6_Witness ==
    /\ Loaded
    /\ pc = "loop"
    /\ i >= 3
    /\ (i - 2) \notin Refs
    /\ (i - 1) \in Refs
    /\ prev_end # << >>
    /\ prev_end[1] < In[i - 1].end

(***************************************************************************)
(* C7: the result's language is the input's language when present and "en" *)
(* when absent; text is the input text; alignment_method is "whisperx".    *)
(***************************************************************************)
C7_LanguageTextMethod ==
    Returned =>
        /\ "language" \in DOMAIN transcript_json.doc
              => output_data.language = transcript_json.doc.language
        /\ "language" \notin DOMAIN transcript_json.doc
              => output_data.language = "en"
        /\ output_data.text = transcript_json.doc.text
        /\ output_data.alignment_method = "whisperx"

\* a run that returned for a transcript that names another language
C7_Witness ==
    /\ Returned
    /\ run = 1
    /\ "language" \in DOMAIN transcript_json.doc
    /\ output_data.language = "fr"

(***************************************************************************)
(* C8: every failure ends the invocation with exit status 1 and is not     *)
(* retried; a wrong argument count never runs align_audio; exit status 0   *)
(* is reached only with the output file written; an input that cannot be   *)
(* read or parsed leaves the output file unopened.                         *)
(***************************************************************************)
C8_FailuresExitOne ==
    /\ pc = "exit" <=> exit_status \in {"0", "1"}
    /\ (pc = "exit" /\ (argc # 4 \/ exc # "none")) => exit_status = "1"
    /\ exc # "none" => pc \in {"raised", "exit"}
    /\ argc # 4 => ~Loaded /\ ~out_opened /\ pc \in {"main", "exit"}
    /\ exit_status = "0" =>
          /\ out_opened
          /\ output_json = [status |-> "ok", doc |-> output_data]
    /\ transcript_json.status # "ok" =>
          /\ ~out_opened
          /\ output_json.status = "missing"

\* a malformed transcript ended the invocation with status 1
C8_Witness ==
    /\ pc = "exit"
    /\ exit_status = "1"
    /\ exc = "JSONDecodeError"

(***************************************************************************)
(* C9: every accepted word's start is the larger of its input start and    *)
(* the end of the word accepted before it; the first accepted word's start *)
(* is its input start; a word whose start is kept is unchanged altogether. *)
(***************************************************************************)
C9_StartIsMax ==
    Loaded =>
        \A k \in 1..Len(validated_words) :
            /\ OutWord(k).start =
                  IF k = 1 THEN InWord(k).start
                  ELSE Larger(InWord(k).start, OutWord(k - 1).end)
            /\ OutWord(k).start = InWord(k).start => OutWord(k) = InWord(k)

\* the scenario [{0,1},{0,2}] -> [{0,1},{1,2}]
C9_Witness ==
    /\ Returned
    /\ run = 1
    /\ Len(Out) = 2
    /\ In[1].start = 0 /\ In[1].end = 1
    /\ In[2].start = 0 /\ In[2].end = 2
    /\ Out[1].start = 0 /\ Out[1].end = 1
    /\ Out[2].start = 1 /\ Out[2].end = 2

(***************************************************************************)
(* C10: the output words are an order-preserving subsequence of the input  *)
(* words, each with its input text and input end; none is duplicated,      *)
(* reordered or invented.                                                  *)
(***************************************************************************)
C10_Subsequence ==
    Loaded =>
        /\ Len(validated_words) <= Len(In)
        /\ \A k \in 1..Len(validated_words) :
              /\ validated_words[k] \in 0..(Len(In) - 1)
              /\ \A l \in 1..(k - 1) : validated_words[l] < validated_words[k]
              /\ OutWord(k).word = InWord(k).word
              /\ OutWord(k).end = InWord(k).end
        /\ Returned =>
              /\ Len(Out) = Len(validated_words)
              /\ \A k \in 1..Len(Out) : /\ Out[k].word = InWord(k).word
                                        /\ Out[k].end = InWord(k).end

\* a run that returned the first and the third of three input words
C10_Witness ==
    /\ Returned
    /\ run = 1
    /\ Len(In) = 3
    /\ validated_words = <<0, 2>>

====
